---- MODULE Spec2Model ----
(***************************************************************************)
(* Bytecode compiler of mat-lang (src/src/compiler.rs): scope-aware slot   *)
(* allocation, constant-pool interning and jump-offset patching, modelled  *)
(* as a state machine over the fields of `Compiler`.  A syntax tree is     *)
(* walked statement by statement: every statement without a sub-block is   *)
(* one action, every statement with a sub-block is a Begin action (the     *)
(* code up to and including compile_block's enter_scope) and an End action *)
(* (compile_block's exit_scope and the code after it).  The activations of *)
(* compile_instruction that are waiting for their block are kept, with     *)
(* their local variables, in `calls`.                                      *)
(***************************************************************************)
EXTENDS Integers, Sequences, FiniteSets, TLC

VARIABLES
    bytecode,   \* Compiler.bytecode : Vec<u8>
    constants,  \* Compiler.constants : Vec<LinaValue>
    scopes,     \* Compiler.scopes : Vec<HashMap<&str, usize>>
    vi,         \* Compiler.vi : usize
    status,     \* "compiling", "done", or the name of the panic that aborted
    calls,      \* pending compile_instruction / compile activations (locals)
    nstmts,     \* number of statements translated so far (bounded)
    opened,     \* history, parallel to scopes: vi at enter_scope, set_var calls
    closed,     \* history: the frames closed so far
    patched,    \* history: the jump constructs completed so far
    ilog,       \* history: the interning steps of the last action
    spans,      \* history: byte extent of every translated (sub)expression
    marks,      \* history: byte positions where a statement starts or ends
    pre,        \* history: byte stream and pool when the last statement began
    tree,       \* the scenario under compilation (scenario runs), never changed
    script,     \* statements still to be fed to the compiler (scenario runs)
    ip,         \* virtual machine: instruction pointer
    ostack,     \* virtual machine: operand stack
    slots,      \* virtual machine: variable slots
    out,        \* virtual machine: values written by the output opcode
    iters,      \* history: how many times the machine entered a counted loop's body
    vmst        \* virtual machine: "idle", "running", "halted", "fault"

vars == <<bytecode, constants, scopes, vi, status, calls, nstmts, opened,
          closed, patched, ilog, spans, marks, pre, tree, script, ip,
          ostack, slots, out, iters, vmst>>

compilerVars == <<bytecode, constants, scopes, vi, status, calls, nstmts,
                  opened, closed, patched, ilog, spans, marks, pre>>
vmVars == <<ip, ostack, slots, out, iters, vmst>>

----------------------------------------------------------------------------
(* Bounds of the model *)

\* statements of a tree, all expression forms
MaxStmts == 3

\* statements of a tree, scope-handling forms only
MaxScopeStmts == 5

\* counted-loop scenario: the variable starts in 0..MaxStart, limit in 0..MaxLimit
MaxStart == 3
MaxLimit == 2

\* width in bits of the machine's integers in the scenario runs (32 in the
\* machine; the scenarios' own values fit the narrower width)
IntBits == 4

\* size_of::<isize>() / size_of::<usize>() on the 64-bit build
SIZE == 8

----------------------------------------------------------------------------
(* Values: token::Literal, vm::LinaValue, f32 *)

(* A payload is [num, txt, nan]: num the number of an integer, of a float   *)
(* (the model uses integral floats only) or of a boolean (0/1), txt the    *)
(* text of a string, nan whether a float is a not-a-number.                *)

Num(n) == [num |-> n, txt |-> "", nan |-> FALSE]
Txt(s) == [num |-> 0, txt |-> s, nan |-> FALSE]
NaN == [num |-> 0, txt |-> "", nan |-> TRUE]

\* f32's PartialEq: NaN is equal to nothing, itself included
f32_eq(a, b) == ~a.nan /\ ~b.nan /\ a.num = b.num

\* #[derive(PartialEq)] on LinaValue: same variant and equal payload
LinaValueEq(a, b) ==
    /\ a.kind = b.kind
    /\ IF a.kind = "Float32" THEN f32_eq(a.val, b.val) ELSE a.val = b.val

\* OpCode as u8
OpCode ==
    [Halt |-> 0, Const |-> 1, Load |-> 2, Store |-> 3, Dup |-> 4, Pop |-> 5,
     Jmp |-> 6, JmpF |-> 7, Write |-> 8,
     GT |-> 9, LT |-> 10, GE |-> 11, LE |-> 12, Eq |-> 13, NE |-> 14,
     And |-> 15, Or |-> 16,
     Add |-> 17, Sub |-> 18, Mul |-> 19, Div |-> 20, Rem |-> 21,
     CastI |-> 22, CastF |-> 23, CastS |-> 24]

\* Operador::is_atrib
is_atrib(ope) ==
    ope \in {"Atrib", "AdicAtrib", "SubtAtrib", "MultAtrib", "DivAtrib",
             "RestoAtrib", "ExpAtrib"}

----------------------------------------------------------------------------
(* Native-word encoding.  Every value of the model fits 31 bits, so the    *)
(* upper four bytes of the 8-byte word are the sign extension.             *)

LowByte(n, i) == IF i <= 4 THEN (n \div (256 ^ (i - 1))) % 256 ELSE 0

\* usize::to_ne_bytes / isize::to_ne_bytes (little-endian, two's complement)
to_ne_bytes(n) ==
    [i \in 1..SIZE |->
        IF n >= 0 THEN LowByte(n, i) ELSE 255 - LowByte((-n) - 1, i)]

\* isize::from_ne_bytes on the SIZE bytes at position pos (0-based)
from_ne_bytes(code, pos) ==
    LET b(i) == code[pos + i]
        mag(f(_)) == f(1) + 256 * f(2) + 65536 * f(3) + 16777216 * f(4)
        neg(i) == 255 - b(i)
    IN  IF b(SIZE) >= 128 THEN (-mag(neg)) - 1 ELSE mag(b)

signum(n) == IF n > 0 THEN 1 ELSE IF n < 0 THEN -1 ELSE 0

----------------------------------------------------------------------------
(* The compiler as a record, threaded through the translation functions.   *)
(* err # "ok" is a panic: the unwinding skips everything that follows.     *)

Cur ==
    [bytecode |-> bytecode, constants |-> constants, scopes |-> scopes,
     vi |-> vi, err |-> "ok", ilog |-> <<>>, spans |-> spans]

panic(c, what) == [c EXCEPT !.err = what]

\* `let x = e; F(x)`: e is evaluated once and F is applied to its value
let(e, F(_)) == CHOOSE r \in {F(x) : x \in {e}} : TRUE

op_const(c, addr) ==
    [c EXCEPT !.bytecode = (@ \o <<OpCode.Const>>) \o to_ne_bytes(addr)]

op_store(c, addr) ==
    [c EXCEPT !.bytecode = (@ \o <<OpCode.Store>>) \o to_ne_bytes(addr)]

op_load(c, addr) ==
    [c EXCEPT !.bytecode = (@ \o <<OpCode.Load>>) \o to_ne_bytes(addr)]

\* mutant: the placeholder word itself is not counted in the distance
push_offset_excl(c, offset) ==
    [c EXCEPT !.bytecode = @ \o to_ne_bytes(offset)]

push_offset(c, offset) ==
    LET total == offset + (SIZE * signum(offset))
    IN  [c EXCEPT !.bytecode = @ \o to_ne_bytes(total)]

\* mutant: the patched distance counts the placeholder word, as push_offset does
insert_offset_incl(c, offset, pos) ==
    LET value == to_ne_bytes(offset + (SIZE * signum(offset)))
    IN  [c EXCEPT !.bytecode =
            [i \in DOMAIN @ |->
                IF pos + 1 <= i /\ i <= pos + SIZE THEN value[i - pos] ELSE @[i]]]

insert_offset(c, offset, pos) ==
    LET value == to_ne_bytes(offset)
    IN  [c EXCEPT !.bytecode =
            [i \in DOMAIN @ |->
                IF pos + 1 <= i /\ i <= pos + SIZE THEN value[i - pos] ELSE @[i]]]

op(c, opcode) == [c EXCEPT !.bytecode = Append(@, opcode)]

EmptyTable == [n \in {} |-> 0]

enter_scope(c) == [c EXCEPT !.scopes = Append(@, EmptyTable)]

exit_scope(c) ==
    IF c.scopes = <<>> THEN panic(c, "EmptyScopeUnderflow")
    ELSE LET scope == c.scopes[Len(c.scopes)]
         IN  [c EXCEPT !.scopes = SubSeq(@, 1, Len(@) - 1),
                       !.vi = @ - Cardinality(DOMAIN scope)]

\* HashMap::insert
insert(table, name, addr) ==
    [n \in (DOMAIN table) \cup {name} |-> IF n = name THEN addr ELSE table[n]]

\* mutant: the counter advances only for a name that is new to the frame
set_var_new_only(c, name) ==
    [c EXCEPT !.scopes[Len(c.scopes)] = insert(@, name, c.vi),
              !.vi = IF name \in DOMAIN c.scopes[Len(c.scopes)] THEN @ ELSE @ + 1]

\* set_var returns the address c.vi of the compiler it is applied to
set_var(c, name) ==
    [c EXCEPT !.scopes[Len(c.scopes)] = insert(@, name, c.vi),
              !.vi = @ + 1]

RECURSIVE lookup(_, _, _)
lookup(scps, name, i) ==
    IF i = 0 THEN -1
    ELSE IF name \in DOMAIN scps[i] THEN scps[i][name]
    ELSE lookup(scps, name, i - 1)

\* mutant: the frames are searched outermost first
RECURSIVE lookup_up(_, _, _)
lookup_up(scps, name, i) ==
    IF i > Len(scps) THEN -1
    ELSE IF name \in DOMAIN scps[i] THEN scps[i][name]
    ELSE lookup_up(scps, name, i + 1)

get_var_outermost(c, name) == lookup_up(c.scopes, name, 1)

\* get_var: the slot, or -1 where the code panics
get_var(c, name) == lookup(c.scopes, name, Len(c.scopes))

\* Literal -> LinaValue (the match of compile_literal)
literal_value(literal) ==
    CASE literal.lit = "Decimal"  -> [kind |-> "Float32", val |-> literal.val]
      [] literal.lit = "Inteiro"  -> [kind |-> "Int32", val |-> literal.val]
      [] literal.lit = "Texto"    -> [kind |-> "String", val |-> literal.val]
      [] literal.lit = "Booleano" -> [kind |-> "Boolean", val |-> literal.val]

\* mutant: entries are compared by variant only
position_same_kind(pool, value) ==
    LET hits == {i \in 1..Len(pool) : pool[i].kind = value.kind}
    IN  IF hits = {} THEN -1
        ELSE (CHOOSE i \in hits : \A j \in hits : i <= j) - 1

\* Iterator::position: 0-based index of the first equal entry, or -1
position(pool, value) ==
    LET hits == {i \in 1..Len(pool) : LinaValueEq(pool[i], value)}
    IN  IF hits = {} THEN -1
        ELSE (CHOOSE i \in hits : \A j \in hits : i <= j) - 1

compile_literal(c, literal) ==
    IF c.err # "ok" THEN c
    ELSE IF literal.lit = "Nulo" THEN panic(c, "NotImplemented")
    ELSE LET value == literal_value(literal)
             find == position(c.constants, value)
             pool == IF find >= 0 THEN c.constants ELSE Append(c.constants, value)
             addr == IF find >= 0 THEN find ELSE Len(pool) - 1
             c1 == [c EXCEPT !.constants = pool,
                             !.ilog = Append(@, [before |-> c.constants,
                                                 value |-> value,
                                                 addr |-> addr,
                                                 after |-> pool])]
         IN  op_const(c1, addr)

\* the opcode match of the BinOp arm
binop_code(c, ope) ==
    CASE ope = "MaiorQue" -> op(c, OpCode.GT)
      [] ope = "MenorQue" -> op(c, OpCode.LT)
      [] ope = "MaiorIgualQue" -> op(c, OpCode.GE)
      [] ope = "MenorIgualQue" -> op(c, OpCode.LE)
      [] ope = "Igual" -> op(c, OpCode.Eq)
      [] ope = "Diferente" -> op(c, OpCode.NE)
      [] ope = "E" -> op(c, OpCode.And)
      [] ope = "Ou" -> op(c, OpCode.Or)
      [] ope \in {"Adic", "AdicAtrib"} -> op(c, OpCode.Add)
      [] ope \in {"Subt", "SubtAtrib"} -> op(c, OpCode.Sub)
      [] ope \in {"Mult", "MultAtrib"} -> op(c, OpCode.Mul)
      [] ope \in {"Div", "DivAtrib"} -> op(c, OpCode.Div)
      [] ope \in {"Resto", "RestoAtrib"} -> op(c, OpCode.Rem)
      [] ope \in {"Exp", "ExpAtrib"} -> panic(c, "UnsupportedOperator")
      [] ope = "Atrib" -> c

\* mutant: the result is stored without being duplicated first
atrib_tail_nodup(c, ope, lhs) ==
    IF c.err # "ok" \/ ~is_atrib(ope) THEN c
    ELSE IF lhs.t # "Identifier" THEN panic(c, "InvalidAssignmentTarget")
    ELSE LET addr == get_var(c, lhs.idt)
         IN  IF addr < 0 THEN panic(c, "UndefinedVariable")
             ELSE op_store(c, addr)

\* the `if ope.is_atrib()` tail of the BinOp arm
atrib_tail(c, ope, lhs) ==
    IF c.err # "ok" \/ ~is_atrib(ope) THEN c
    ELSE IF lhs.t # "Identifier" THEN panic(c, "InvalidAssignmentTarget")
    ELSE LET c1 == op(c, OpCode.Dup)
             addr == get_var(c1, lhs.idt)
         IN  IF addr < 0 THEN panic(c1, "UndefinedVariable")
             ELSE op_store(c1, addr)

\* the type match of the Cast arm
cast_code(c, typ) ==
    CASE typ = "Integer" -> op(c, OpCode.CastI)
      [] typ = "Real" -> op(c, OpCode.CastF)
      [] typ = "Text" -> op(c, OpCode.CastS)
      [] OTHER -> panic(c, "UnsupportedCast")

RECURSIVE compile_expr(_, _)
compile_expr(c, expr) ==
    IF c.err # "ok" THEN c
    ELSE
      LET from == Len(c.bytecode)
          done(r) == IF r.err # "ok" THEN r
                     ELSE [r EXCEPT !.spans = @ \cup {<<from, Len(r.bytecode)>>}]
          lookup_load(addr) == IF addr < 0 THEN panic(c, "UndefinedVariable")
                               ELSE op_load(c, addr)
          binop3(c2) == IF c2.err # "ok" THEN c2
                        ELSE let(binop_code(c2, expr.ope),
                                 LAMBDA c3 : atrib_tail(c3, expr.ope, expr.lhs))
          binop2(c1) == let(compile_expr(c1, expr.rhs), binop3)
          cast2(c1) == IF c1.err # "ok" THEN c1 ELSE cast_code(c1, expr.typ)
      IN  CASE expr.t = "Literal" -> let(compile_literal(c, expr.lit), done)
            [] expr.t = "Identifier" ->
                 let(let(get_var(c, expr.idt), lookup_load), done)
            [] expr.t = "BinOp" ->
                 \* Atrib (:=) does not need a left hand side
                 let(IF expr.ope # "Atrib"
                     THEN let(compile_expr(c, expr.lhs), binop2)
                     ELSE binop2(c),
                     done)
            [] expr.t = "Cast" ->
                 let(let(compile_expr(c, expr.exp), cast2), done)

----------------------------------------------------------------------------
(* Syntax trees: syntax::Expression, token::Literal *)

Inteiro(n) == [lit |-> "Inteiro", val |-> Num(n)]
Decimal(n) == [lit |-> "Decimal", val |-> Num(n)]
DecimalNaN == [lit |-> "Decimal", val |-> NaN]
Booleano(b) == [lit |-> "Booleano", val |-> Num(IF b THEN 1 ELSE 0)]
Texto(s) == [lit |-> "Texto", val |-> Txt(s)]
Nulo == [lit |-> "Nulo", val |-> Num(0)]

Lit(l) == [t |-> "Literal", lit |-> l]
Id(n) == [t |-> "Identifier", idt |-> n]
Bin(o, l, r) == [t |-> "BinOp", ope |-> o, lhs |-> l, rhs |-> r]
CastTo(e, ty) == [t |-> "Cast", exp |-> e, typ |-> ty]

(* The trees the compiler is driven with *)

Names == {"x", "y"}

\* limits of counted loops
Literals == {Inteiro(10), Decimal(10), Nulo}

\* right-hand sides of assignment statements
AssignExprs ==
    {Lit(Inteiro(10)), Lit(Decimal(10)), Id("x"),
     Bin("Adic", Id("x"), Lit(Inteiro(10)))}

\* conditions of conditionals and pre-tested loops
CondExprs ==
    {Lit(Booleano(TRUE)), Bin("MenorQue", Id("x"), Lit(Decimal(10)))}

\* expressions of print statements
PrintExprs == {Id("x"), Lit(Texto("a")), Lit(DecimalNaN)}

\* expressions of expression statements
StmtExprs ==
    {Bin("Atrib", Id("y"), Lit(Inteiro(10))),
     Bin("AdicAtrib", Id("x"), Lit(Decimal(10))),
     Bin("RestoAtrib", Lit(Inteiro(10)), Id("x")),
     Bin("SubtAtrib", Lit(Texto("a")), Lit(DecimalNaN)),
     Bin("Exp", Id("x"), Lit(Inteiro(10))),
     CastTo(Id("x"), "Integer"),
     CastTo(Lit(DecimalNaN), "Boolean"),
     Lit(Nulo)}

Exprs == AssignExprs \cup CondExprs \cup PrintExprs \cup StmtExprs

----------------------------------------------------------------------------
(* State machine of one compilation *)

NoLocals == [kind |-> "compile", addr |-> 0, start |-> 0,
             jmp_offset_pos |-> 0, block_start |-> 0]

NoTree == [name |-> "", v |-> Inteiro(0), lmt |-> Inteiro(0), body |-> <<>>]

\* Compiler::new(), nothing translated yet, the machine not started
New ==
    /\ bytecode = <<>>
    /\ constants = <<>>
    /\ scopes = <<EmptyTable>>
    /\ vi = 0
    /\ status = "new"
    /\ calls = <<>>
    /\ nstmts = 0
    /\ opened = <<[vi_open |-> 0, binds |-> <<>>]>>
    /\ closed = {}
    /\ patched = {}
    /\ ilog = <<>>
    /\ spans = {}
    /\ marks = {}
    /\ pre = [bytecode |-> <<>>, constants |-> <<>>]
    /\ ip = 0
    /\ ostack = <<>>
    /\ slots = EmptyTable
    /\ out = <<>>
    /\ iters = 0
    /\ vmst = "idle"

Init ==
    /\ New
    /\ tree = NoTree
    /\ script = <<>>

\* the fields of the compiler after the calls that produced c
Commit(c, st) ==
    /\ bytecode' = c.bytecode
    /\ constants' = c.constants
    /\ scopes' = c.scopes
    /\ vi' = c.vi
    /\ ilog' = c.ilog
    /\ spans' = c.spans
    /\ status' = IF c.err = "ok" THEN st ELSE c.err

\* history of enter_scope / exit_scope / set_var
Opened(c) == Append(opened, [vi_open |-> c.vi, binds |-> <<>>])
Bound(name, addr) ==
    [opened EXCEPT ![Len(opened)].binds = Append(@, <<name, addr>>)]
Closed(c) ==
    closed \cup {[vi_open |-> opened[Len(opened)].vi_open,
                  binds |-> opened[Len(opened)].binds,
                  vi_before |-> vi,
                  vi_close |-> c.vi]}
Popped == SubSeq(opened, 1, Len(opened) - 1)

CanStart == status = "compiling"
Top == calls[Len(calls)]
Pop == SubSeq(calls, 1, Len(calls) - 1)
Snapshot == [bytecode |-> bytecode, constants |-> constants]

\* compile, up to and including compile_block's enter_scope
CompileBegin ==
    /\ status = "new"
    /\ Commit(enter_scope(Cur), "compiling")
    /\ opened' = Opened(Cur)
    /\ calls' = <<NoLocals>>
    /\ UNCHANGED <<nstmts, closed, patched, marks, pre>>

\* compile, from compile_block's exit_scope on
CompileEnd ==
    /\ status = "compiling"
    /\ Len(calls) = 1
    /\ \E c1 \in {exit_scope(Cur)} :
         /\ Commit(op(c1, OpCode.Halt), "done")
         /\ closed' = Closed(c1)
    /\ opened' = Popped
    /\ calls' = <<>>
    /\ UNCHANGED <<nstmts, patched, marks, pre>>

\* a statement without a block has been translated into c
Translated(c) ==
    /\ Commit(c, status)
    /\ marks' = IF c.err # "ok" THEN marks
                ELSE marks \cup {Len(bytecode), Len(c.bytecode)}
    /\ pre' = Snapshot
    /\ nstmts' = nstmts + 1

\* compile_instruction, Assign arm
Assign(ident, expr) ==
    /\ CanStart
    /\ \E addr \in {vi} :
       \E c2 \in {compile_expr(set_var(Cur, ident), expr)} :
         /\ Translated(IF c2.err # "ok" THEN c2 ELSE op_store(c2, addr))
         /\ opened' = Bound(ident, addr)
    /\ UNCHANGED <<calls, closed, patched>>

\* compile_instruction, Expr arm
ExprStmt(expr) ==
    /\ CanStart
    /\ \E c1 \in {compile_expr(Cur, expr)} :
         Translated(IF c1.err # "ok" THEN c1 ELSE op(c1, OpCode.Pop))
    /\ UNCHANGED <<calls, opened, closed, patched>>

\* compile_instruction, Print arm
PrintStmt(expr) ==
    /\ CanStart
    /\ \E c1 \in {compile_expr(Cur, expr)} :
         Translated(IF c1.err # "ok" THEN c1 ELSE op(c1, OpCode.Write))
    /\ UNCHANGED <<calls, opened, closed, patched>>

\* the translation of a statement with a block panicked in c, before the block
Aborted(c) ==
    /\ Commit(c, status)
    /\ pre' = Snapshot
    /\ nstmts' = nstmts + 1
    /\ UNCHANGED <<calls, opened, marks>>

\* the translation of a statement with a block has reached the block's
\* statements, c4 being the compiler before the block's enter_scope
Entered(c4, locals) ==
    /\ Commit(enter_scope(c4), status)
    /\ calls' = Append(calls, locals)
    /\ opened' = Opened(c4)
    /\ marks' = marks \cup {Len(bytecode)}
    /\ pre' = Snapshot
    /\ nstmts' = nstmts + 1

\* the translation of a statement with a block is complete in c, c1 being the
\* compiler after the block's exit_scope
Left(c1, c, kind) ==
    /\ Commit(c, status)
    /\ closed' = Closed(c1)
    /\ marks' = marks \cup {Len(c.bytecode)}
    /\ patched' = patched \cup
         {[kind |-> kind,
           start |-> Top.start,
           jmpf_pos |-> Top.jmp_offset_pos,
           body_start |-> Top.jmp_offset_pos + SIZE,
           body_end |-> Len(bytecode),
           back_pos |-> IF kind = "se" THEN 0 ELSE Len(c.bytecode) - SIZE,
           end |-> Len(c.bytecode)]}
    /\ opened' = Popped
    /\ calls' = Pop
    /\ UNCHANGED <<nstmts, pre>>

\* compile_instruction, SeStmt arm, up to and including the block's enter_scope
SeBegin(expr) ==
    /\ CanStart
    /\ \E c1 \in {compile_expr(Cur, expr)} :
         IF c1.err # "ok" THEN Aborted(c1)
         ELSE \E c2 \in {op(c1, OpCode.JmpF)} :
              \E jmp_offset_pos \in {Len(c2.bytecode)} :
              \E c3 \in {push_offset(c2, 0)} :
              \E start \in {Len(c3.bytecode)} :
                Entered(c3, [NoLocals EXCEPT !.kind = "se", !.start = start,
                                             !.jmp_offset_pos = jmp_offset_pos])
    /\ UNCHANGED <<closed, patched>>

\* compile_instruction, SeStmt arm, from the block's exit_scope on
SeEnd ==
    /\ status = "compiling"
    /\ Len(calls) > 1 /\ Top.kind = "se"
    /\ \E c1 \in {exit_scope(Cur)} :
       \E end \in {Len(c1.bytecode)} :
       \E jmp_offset \in {end - Top.start} :
         Left(c1, insert_offset(c1, jmp_offset, Top.jmp_offset_pos), "se")

\* compile_instruction, EnquantoStmt arm, up to the block's enter_scope
EnquantoBegin(expr) ==
    /\ CanStart
    /\ \E start \in {Len(bytecode)} :
       \E c1 \in {compile_expr(Cur, expr)} :
         IF c1.err # "ok" THEN Aborted(c1)
         ELSE \E c2 \in {op(c1, OpCode.JmpF)} :
              \E jmpf_offset_pos \in {Len(c2.bytecode)} :
              \E c3 \in {push_offset(c2, 0)} :
              \E block_start \in {Len(c3.bytecode)} :
                Entered(c3, [NoLocals EXCEPT !.kind = "enquanto",
                                             !.start = start,
                                             !.jmp_offset_pos = jmpf_offset_pos,
                                             !.block_start = block_start])
    /\ UNCHANGED <<closed, patched>>

\* the tail of both loops: the back-jump and the patch of the jump out
loop_tail(c, locals) ==
    let(op(c, OpCode.Jmp), LAMBDA c2 :
        let(push_offset(c2, -(Len(c2.bytecode) - locals.start)), LAMBDA c3 :
            insert_offset(c3, Len(c3.bytecode) - locals.block_start,
                          locals.jmp_offset_pos)))

\* compile_instruction, EnquantoStmt arm, from the block's exit_scope on
EnquantoEnd ==
    /\ status = "compiling"
    /\ Len(calls) > 1 /\ Top.kind = "enquanto"
    /\ \E c1 \in {exit_scope(Cur)} :
         Left(c1, loop_tail(c1, Top), "enquanto")

\* mutant: the bound is exclusive
para_test_lt(c, addr, limit) ==
    let(compile_literal(op_load(c, addr), limit), LAMBDA c2 :
        IF c2.err # "ok" THEN c2 ELSE op(c2, OpCode.LT))

\* the loop test of the ParaStmt arm: variable <= limit
para_test(c, addr, limit) ==
    let(compile_literal(op_load(c, addr), limit), LAMBDA c2 :
        IF c2.err # "ok" THEN c2 ELSE op(c2, OpCode.LE))

\* the increment of the ParaStmt arm: variable := variable + 1.0
para_step(c, addr) ==
    let(compile_literal(op_load(c, addr), Decimal(1)), LAMBDA c2 :
        op_store(op(c2, OpCode.Add), addr))

\* compile_instruction, ParaStmt arm, up to the block's enter_scope
ParaBegin(ident, limit) ==
    /\ CanStart
    /\ \E addr \in {get_var(Cur, ident)} :
       \E start \in {Len(bytecode)} :
         IF addr < 0 THEN Aborted(panic(Cur, "UndefinedVariable"))
         ELSE \E c3 \in {para_test(Cur, addr, limit)} :
                IF c3.err # "ok" THEN Aborted(c3)
                ELSE \E c4 \in {op(c3, OpCode.JmpF)} :
                     \E jmp_offset_pos \in {Len(c4.bytecode)} :
                     \E c5 \in {push_offset(c4, 0)} :
                     \E block_start \in {Len(c5.bytecode)} :
                       Entered(c5, [kind |-> "para", addr |-> addr,
                                    start |-> start,
                                    jmp_offset_pos |-> jmp_offset_pos,
                                    block_start |-> block_start])
    /\ UNCHANGED <<closed, patched>>

\* compile_instruction, ParaStmt arm, from the block's exit_scope on
ParaEnd ==
    /\ status = "compiling"
    /\ Len(calls) > 1 /\ Top.kind = "para"
    /\ \E c1 \in {exit_scope(Cur)} :
       \E c5 \in {para_step(c1, Top.addr)} :
         Left(c1, loop_tail(c5, Top), "para")

Idle == UNCHANGED <<tree, script, ip, ostack, slots, out, iters, vmst>>

More == nstmts < MaxStmts

Next ==
    \/ CompileBegin /\ Idle
    \/ \E n \in Names, e \in AssignExprs : More /\ Assign(n, e) /\ Idle
    \/ \E e \in StmtExprs : More /\ ExprStmt(e) /\ Idle
    \/ \E e \in PrintExprs : More /\ PrintStmt(e) /\ Idle
    \/ \E e \in CondExprs : More /\ SeBegin(e) /\ Idle
    \/ SeEnd /\ Idle
    \/ \E e \in CondExprs : More /\ EnquantoBegin(e) /\ Idle
    \/ EnquantoEnd /\ Idle
    \/ \E n \in Names, l \in Literals : More /\ ParaBegin(n, l) /\ Idle
    \/ ParaEnd /\ Idle
    \/ CompileEnd /\ Idle

Spec == Init /\ [][Next]_vars

(* The same compiler driven with the trees that matter to the scope stack: *)
(* assignments of a literal to either name, and the three block forms.     *)

ScopeExprs == {Lit(Inteiro(10))}

MoreScopes == nstmts < MaxScopeStmts

NextScopes ==
    \/ CompileBegin /\ Idle
    \/ \E n \in Names, e \in ScopeExprs : MoreScopes /\ Assign(n, e) /\ Idle
    \/ MoreScopes /\ SeBegin(Lit(Booleano(TRUE))) /\ Idle
    \/ SeEnd /\ Idle
    \/ MoreScopes /\ EnquantoBegin(Id("y")) /\ Idle
    \/ EnquantoEnd /\ Idle
    \/ MoreScopes /\ ParaBegin("x", Inteiro(10)) /\ Idle
    \/ ParaEnd /\ Idle
    \/ CompileEnd /\ Idle

SpecScopes == Init /\ [][NextScopes]_vars

----------------------------------------------------------------------------
(* The stack machine's view of the byte stream (vm): which opcodes carry   *)
(* an operand word, how many values each pops and pushes.                  *)

WithOperand == {OpCode.Const, OpCode.Load, OpCode.Store, OpCode.Jmp, OpCode.JmpF}

Binary == {OpCode.GT, OpCode.LT, OpCode.GE, OpCode.LE, OpCode.Eq, OpCode.NE,
           OpCode.And, OpCode.Or, OpCode.Add, OpCode.Sub, OpCode.Mul,
           OpCode.Div, OpCode.Rem}

Casts == {OpCode.CastI, OpCode.CastF, OpCode.CastS}

InstrLen(o) == IF o \in WithOperand THEN 1 + SIZE ELSE 1

Pops(o) ==
    IF o \in Binary THEN 2
    ELSE IF o \in Casts \cup {OpCode.Store, OpCode.Dup, OpCode.Pop,
                              OpCode.JmpF, OpCode.Write} THEN 1
    ELSE 0

Pushes(o) ==
    IF o = OpCode.Dup THEN 2
    ELSE IF o \in Binary \cup Casts \cup {OpCode.Const, OpCode.Load} THEN 1
    ELSE 0

\* the opcode at position pc (0-based) of the byte stream
OpAt(code, pc) == code[pc + 1]

\* where a jump at pc lands: the pointer just past the operand, plus the operand
JumpTarget(code, pc) == (pc + 1 + SIZE) + from_ne_bytes(code, pc + 1)

(* Stack depth after the straight-line code in [pc, to), entered at depth; *)
(* -1 when it pops below the depth it was entered at, jumps, halts or does *)
(* not end on an instruction boundary.                                     *)
RECURSIVE Straight(_, _, _, _)
Straight(code, pc, to, depth) ==
    IF pc = to THEN depth
    ELSE IF pc > to THEN -1
    ELSE LET o == OpAt(code, pc)
         IN  IF o \in {OpCode.Jmp, OpCode.JmpF, OpCode.Halt} \/ depth < Pops(o)
             THEN -1
             ELSE Straight(code, pc + InstrLen(o), to, (depth - Pops(o)) + Pushes(o))

(* Successors of <<pc, depth>> along every path: a jump-if-false goes both *)
(* ways.  <<-1, 0>> stands for a pop from too shallow a stack or a pointer *)
(* outside the code.                                                       *)
PathSucc(code, pd) ==
    LET pc == pd[1]
        d == pd[2]
    IN  IF pc < 0 THEN {}
        ELSE IF pc >= Len(code) \/ d > Len(code) THEN {<<-1, 0>>}
        ELSE LET o == OpAt(code, pc)
                 nd == (d - Pops(o)) + Pushes(o)
             IN  IF o = OpCode.Halt THEN {}
                 ELSE IF d < Pops(o) THEN {<<-1, 0>>}
                 ELSE IF o = OpCode.Jmp THEN {<<JumpTarget(code, pc), nd>>}
                 ELSE IF o = OpCode.JmpF
                 THEN {<<pc + InstrLen(o), nd>>, <<JumpTarget(code, pc), nd>>}
                 ELSE {<<pc + InstrLen(o), nd>>}

RECURSIVE PathClosure(_, _, _)
PathClosure(code, seen, frontier) ==
    IF frontier = {} THEN seen
    ELSE LET next == UNION {PathSucc(code, pd) : pd \in frontier}
         IN  PathClosure(code, seen \cup frontier, next \ (seen \cup frontier))

\* every <<pc, depth>> some execution path of the code reaches from <<0, 0>>
Paths(code) == PathClosure(code, {}, {<<0, 0>>})

----------------------------------------------------------------------------
(* The stack machine (vm), for the scenarios that execute compiled code.   *)
(* A machine state is [ip, ostack, slots, out, vmst].  Only the opcodes    *)
(* the scenarios emit are given a meaning; any other one stops the         *)
(* machine in "fault".                                                     *)

IntV(n) == [kind |-> "Int32", val |-> Num(n)]
FloatV(n) == [kind |-> "Float32", val |-> Num(n)]
BoolV(b) == [kind |-> "Boolean", val |-> Num(IF b THEN 1 ELSE 0)]

Half == 2 ^ (IntBits - 1)
InRange(n) == -Half <= n /\ n < Half
Wrap(n) == ((n + Half) % (2 * Half)) - Half

Numeric(v) == v.kind \in {"Int32", "Float32"} /\ ~v.val.nan

\* what a slot that was never stored may be read as
Unset == {IntV(0)}

Fault(m) == [m EXCEPT !.vmst = "fault"]

\* the exact result of an arithmetic opcode on the numbers x and y
Arith(o, x, y) ==
    CASE o = OpCode.Add -> x + y
      [] o = OpCode.Sub -> x - y
      [] o = OpCode.Mul -> x * y
      [] OTHER -> 0

\* an integer operation whose result does not fit the integer width: the
\* build decides whether it panics or wraps
Overflows(o, a, b) ==
    /\ o \in {OpCode.Add, OpCode.Sub, OpCode.Mul}
    /\ a.kind = "Int32" /\ b.kind = "Int32"
    /\ ~InRange(Arith(o, a.val.num, b.val.num))

\* the results of a binary opcode on a (pushed first) and b; {} where the
\* operands have no such operation.  Integer and float operands mix as floats.
BinaryResults(o, a, b) ==
    LET x == a.val.num
        y == b.val.num
        r == Arith(o, x, y)
    IN  IF ~Numeric(a) \/ ~Numeric(b) THEN {}
        ELSE CASE o = OpCode.LT -> {BoolV(x < y)}
               [] o = OpCode.LE -> {BoolV(x <= y)}
               [] o = OpCode.GT -> {BoolV(x > y)}
               [] o = OpCode.GE -> {BoolV(x >= y)}
               [] o = OpCode.Eq -> {BoolV(x = y)}
               [] o = OpCode.NE -> {BoolV(x # y)}
               [] o \in {OpCode.Add, OpCode.Sub, OpCode.Mul} ->
                    IF a.kind = "Float32" \/ b.kind = "Float32"
                    THEN {FloatV(r)}
                    ELSE {IntV(Wrap(r))}
               [] OTHER -> {}

\* the machine states one instruction leads to
Exec(code, pool, m) ==
    LET o == OpAt(code, m.ip)
        next == m.ip + InstrLen(o)
        arg == from_ne_bytes(code, m.ip + 1)
        n == Len(m.ostack)
        top == m.ostack[n]
        rest(k) == SubSeq(m.ostack, 1, n - k)
    IN  IF n < Pops(o) THEN {Fault(m)}
        ELSE CASE o = OpCode.Const ->
                    {[m EXCEPT !.ip = next, !.ostack = Append(@, pool[arg + 1])]}
               [] o = OpCode.Load ->
                    IF arg \in DOMAIN m.slots
                    THEN {[m EXCEPT !.ip = next, !.ostack = Append(@, m.slots[arg])]}
                    ELSE {Fault(m)} \cup
                         {[m EXCEPT !.ip = next, !.ostack = Append(@, g)] : g \in Unset}
               [] o = OpCode.Store ->
                    {[m EXCEPT !.ip = next, !.ostack = rest(1),
                               !.slots = insert(@, arg, top)]}
               [] o = OpCode.Dup ->
                    {[m EXCEPT !.ip = next, !.ostack = Append(@, top)]}
               [] o = OpCode.Pop ->
                    {[m EXCEPT !.ip = next, !.ostack = rest(1)]}
               [] o = OpCode.Write ->
                    {[m EXCEPT !.ip = next, !.ostack = rest(1),
                               !.out = Append(@, top)]}
               [] o = OpCode.Jmp ->
                    {[m EXCEPT !.ip = JumpTarget(code, m.ip)]}
               [] o = OpCode.JmpF ->
                    IF top.kind # "Boolean" THEN {Fault(m)}
                    ELSE {[m EXCEPT !.ostack = rest(1),
                                    !.ip = IF top.val.num = 0
                                           THEN JumpTarget(code, m.ip) ELSE next]}
               [] o = OpCode.Halt -> {[m EXCEPT !.vmst = "halted"]}
               [] o \in Binary ->
                    LET rs == BinaryResults(o, m.ostack[n - 1], top)
                    IN  IF rs = {} THEN {Fault(m)}
                        ELSE {[m EXCEPT !.ip = next,
                                        !.ostack = Append(rest(2), r)] : r \in rs}
                             \cup (IF Overflows(o, m.ostack[n - 1], top)
                                   THEN {Fault(m)} ELSE {})
               [] OTHER -> {Fault(m)}

Machine == [ip |-> ip, ostack |-> ostack, slots |-> slots, out |-> out,
            vmst |-> vmst]

\* first bytes of the bodies of the counted loops of the compiled program
Watched == {p.body_start : p \in {q \in patched : q.kind = "para"}}

\* the machine is handed the finished byte stream and constant pool
VMStart ==
    /\ status = "done" /\ vmst = "idle"
    /\ vmst' = "running"
    /\ ip' = 0
    /\ UNCHANGED <<compilerVars, tree, script, ostack, slots, out, iters>>

\* one instruction
VMStep ==
    /\ vmst = "running"
    /\ \E m \in Exec(bytecode, constants, Machine) :
         /\ ip' = m.ip
         /\ ostack' = m.ostack
         /\ slots' = m.slots
         /\ out' = m.out
         /\ vmst' = m.vmst
         /\ iters' = IF m.vmst = "running" /\ m.ip \in Watched /\ m.ip # ip
                     THEN iters + 1 ELSE iters
    /\ UNCHANGED <<compilerVars, tree, script>>

(* Scenario runs: the statements of a fixed tree are fed to the compiler   *)
(* in order, then the machine executes the result.                         *)

Stmt(k, i, e, l) == [k |-> k, idt |-> i, exp |-> e, lmt |-> l]
AssignS(i, e) == Stmt("Assign", i, e, Nulo)
EnquantoS(e) == Stmt("Enquanto", "", e, Nulo)
ParaS(i, l) == Stmt("Para", i, Lit(Nulo), l)
PrintS(e) == Stmt("Print", "", e, Nulo)
EndS == Stmt("End", "", Lit(Nulo), Nulo)

Fed == script' = Tail(script) /\ UNCHANGED <<tree, ip, ostack, slots, out, iters, vmst>>
Feeding(k) == script # <<>> /\ Head(script).k = k

FeedAssign == Feeding("Assign") /\ Assign(Head(script).idt, Head(script).exp) /\ Fed
FeedPrint == Feeding("Print") /\ PrintStmt(Head(script).exp) /\ Fed
FeedEnquanto == Feeding("Enquanto") /\ EnquantoBegin(Head(script).exp) /\ Fed
FeedEnquantoEnd == Feeding("End") /\ EnquantoEnd /\ Fed
FeedPara == Feeding("Para") /\ ParaBegin(Head(script).idt, Head(script).lmt) /\ Fed
FeedParaEnd == Feeding("End") /\ ParaEnd /\ Fed
FeedEnd == script = <<>> /\ CompileEnd /\ Idle

(* x := 0; enquanto x < 3 faca x := x + 1 fim -- both assignments are      *)
(* assignment statements                                                   *)
ScenarioB ==
    <<AssignS("x", Lit(Inteiro(0))),
      EnquantoS(Bin("MenorQue", Id("x"), Lit(Inteiro(3)))),
      AssignS("x", Bin("Adic", Id("x"), Lit(Inteiro(1)))),
      EndS>>

InitB ==
    /\ New
    /\ tree = [NoTree EXCEPT !.name = "B"]
    /\ script = ScenarioB

NextB ==
    \/ CompileBegin /\ Idle
    \/ FeedAssign
    \/ FeedEnquanto
    \/ FeedEnquantoEnd
    \/ FeedEnd
    \/ VMStart
    \/ VMStep

\* compiler and machine are sequential programs that run to completion
SpecB == InitB /\ [][NextB]_vars /\ WF_vars(NextB)

(* x := v; para x ate L faca <body> fim; imprima "a" -- and the same loop  *)
(* over y, which is bound nowhere                                          *)
Bodies ==
    {<<>>,
     <<PrintS(Id("x"))>>,
     <<AssignS("y", Id("x")), PrintS(Id("y"))>>,
     <<AssignS("x", Lit(Inteiro(0))), PrintS(Id("x"))>>}

Numbers(max) == {Inteiro(n) : n \in 0..max} \cup {Decimal(n) : n \in 0..max}

TreesC ==
    [name : {"x", "y"}, v : Numbers(MaxStart), lmt : Numbers(MaxLimit),
     body : Bodies]

ScenarioC(t) ==
    (<<AssignS("x", Lit(t.v)), ParaS(t.name, t.lmt)>> \o t.body)
        \o <<EndS, PrintS(Lit(Texto("a")))>>

InitC ==
    /\ tree \in TreesC
    /\ script = ScenarioC(tree)
    /\ New

NextC ==
    \/ CompileBegin /\ Idle
    \/ FeedAssign
    \/ FeedPrint
    \/ FeedPara
    \/ FeedParaEnd
    \/ FeedEnd
    \/ VMStart
    \/ VMStep

SpecC == InitC /\ [][NextC]_vars

----------------------------------------------------------------------------
(* Properties *)

(* C1: for every block the slot counter after its frame is closed equals   *)
(* the counter just before the frame was opened, and closing decrements    *)
(* the counter by exactly the number of bindings made in the frame.        *)
C1_ScopeRoundTrip ==
    \A f \in closed :
        /\ f.vi_close = f.vi_open
        /\ f.vi_before - f.vi_close = Len(f.binds)

(* C2: when a compound assignment with a non-identifier left-hand side     *)
(* aborts the compilation, the byte stream and the constant pool are what  *)
(* they were before the translation of that statement began.               *)
C2_AbortEmitsNothing ==
    status = "InvalidAssignmentTarget" =>
        /\ bytecode = pre.bytecode
        /\ constants = pre.constants

(* C3: every interning step either finds a value-equal entry, leaves the   *)
(* pool unchanged and returns the address of the first such entry, or      *)
(* finds none, appends exactly one entry and returns the new last index;   *)
(* existing entries keep their address, and the returned address never     *)
(* holds a value of another kind.                                          *)
Equal(pool, value) == {i \in 1..Len(pool) : LinaValueEq(pool[i], value)}

C3_Interning ==
    /\ \A k \in 1..Len(ilog) :
         LET e == ilog[k]
             eq == Equal(e.before, e.value)
         IN  /\ IF eq # {}
                THEN /\ e.after = e.before
                     /\ e.addr + 1 \in eq
                     /\ \A i \in eq : e.addr + 1 <= i
                ELSE /\ e.after = Append(e.before, e.value)
                     /\ e.addr = Len(e.after) - 1
             /\ \A i \in 1..Len(e.before) : e.after[i] = e.before[i]
             /\ e.after[e.addr + 1].kind = e.value.kind
             /\ k < Len(ilog) => ilog[k + 1].before = e.after
    /\ ilog # <<>> => ilog[Len(ilog)].after = constants
    /\ \A i, j \in 1..Len(constants) :
         LinaValueEq(constants[i], constants[j]) => i = j

\* integer 10 and float 10.0 are both interned, at distinct addresses, and
\* a later literal was found in the pool
C3_Witness ==
    /\ \E i, j \in 1..Len(constants) :
         /\ i # j
         /\ constants[i] = [kind |-> "Int32", val |-> Num(10)]
         /\ constants[j] = [kind |-> "Float32", val |-> Num(10)]
    /\ \E k \in 1..Len(ilog) :
         /\ ilog[k].after = ilog[k].before
         /\ ilog[k].addr < Len(constants) - 1

(* C4: the value patched into the operand of every jump-if-false equals    *)
(* the number of bytes from the end of that operand to the first byte      *)
(* after the whole construct: the byte length of the body for a            *)
(* conditional, just past the operand of the back-jump for a loop.         *)
C4_ForwardPatch ==
    \A p \in patched :
        LET v == from_ne_bytes(bytecode, p.jmpf_pos)
        IN  /\ OpAt(bytecode, p.jmpf_pos - 1) = OpCode.JmpF
            /\ p.body_start = p.jmpf_pos + SIZE
            /\ v = p.end - (p.jmpf_pos + SIZE)
            /\ JumpTarget(bytecode, p.jmpf_pos - 1) = p.end
            /\ p.kind = "se" => v = p.body_end - p.body_start
            /\ p.kind # "se" =>
                 /\ OpAt(bytecode, p.back_pos - 1) = OpCode.Jmp
                 /\ p.end = p.back_pos + SIZE

\* a conditional with an empty body, one with a non-empty body and a loop
\* nested in another construct have all been patched
C4_Witness ==
    /\ \E p \in patched : p.kind = "se" /\ p.body_end = p.body_start
    /\ \E p \in patched : p.kind = "se" /\ p.body_end > p.body_start
    /\ \E p, q \in patched :
         /\ p.kind # "se"
         /\ q.body_start <= p.start /\ p.end <= q.body_end

(* C5: the operand written after the back-jump of every loop is negative   *)
(* and its magnitude is the byte distance from just after that operand     *)
(* back to the first byte of the loop's condition code, so that adding it  *)
(* to a pointer just past the operand gives the recorded loop start.       *)
C5_BackJump ==
    \A p \in patched :
        p.kind # "se" =>
            LET v == from_ne_bytes(bytecode, p.back_pos)
            IN  /\ OpAt(bytecode, p.back_pos - 1) = OpCode.Jmp
                /\ v < 0
                /\ -v = (p.back_pos + SIZE) - p.start
                /\ JumpTarget(bytecode, p.back_pos - 1) = p.start
                /\ p.start < p.jmpf_pos
                /\ p.start \in marks

\* a pre-tested loop and a counted loop have both been completed
C5_Witness ==
    /\ \E p \in patched : p.kind = "enquanto"
    /\ \E p \in patched : p.kind = "para" /\ p.body_end > p.body_start

(* C6: the code compiled from `x := 0; while x < 3 do x := x + 1 end`,     *)
(* both assignments being assignment statements, eventually reaches the    *)
(* halt opcode with slot 0 holding 3.                                      *)
C6_ScenarioB ==
    <>(/\ vmst = "halted"
       /\ 0 \in DOMAIN slots
       /\ slots[0].val.num = 3)

(* C7: a counted loop over a bound variable holding v with limit L, whose  *)
(* body does not store to the variable's slot, runs its body L - v + 1     *)
(* times when v <= L and not at all when v > L, then goes on to the code   *)
(* after the loop; the header binds nothing, and a loop variable that is   *)
(* not bound aborts the compilation before anything is emitted for it.     *)
Expected ==
    IF tree.v.val.num <= tree.lmt.val.num
    THEN (tree.lmt.val.num - tree.v.val.num) + 1 ELSE 0

Bigger(a, b) == IF a >= b THEN a ELSE b

C7_CountedLoop ==
    /\ vmst # "fault"
    /\ iters <= Expected
    /\ vmst = "halted" =>
         /\ tree.name = "x"
         /\ iters = Expected
         /\ out # <<>> /\ out[Len(out)] = [kind |-> "String", val |-> Txt("a")]
         /\ Len(out) = (IF tree.body = <<>> THEN 0 ELSE Expected) + 1
         /\ slots[0].val.num = Bigger(tree.v.val.num, tree.lmt.val.num + 1)
    /\ (Len(calls) = 2 /\ opened[Len(opened)].binds = <<>>) =>
         /\ vi = 1
         /\ scopes = <<EmptyTable, [n \in {"x"} |-> 0], EmptyTable>>
    /\ tree.name = "y" =>
         /\ Len(calls) <= 1
         /\ status # "done"
         /\ nstmts = 2 =>
              /\ status = "UndefinedVariable"
              /\ bytecode = pre.bytecode
              /\ constants = pre.constants

\* the loop from 0 to 2 ran its body three times and the machine went on to
\* the code after it and halted
C7_Witness ==
    /\ vmst = "halted"
    /\ tree.v = Inteiro(0) /\ tree.lmt = Inteiro(2) /\ tree.body = <<PrintS(Id("x"))>>
    /\ iters = 3
    /\ Len(out) = 4

(* C8: resolve(name) is the slot of the most recent bind of name in the    *)
(* innermost open frame that binds it; binds of one name in one frame get  *)
(* distinct slots; a name no open frame binds aborts the compilation with  *)
(* UndefinedVariable.                                                      *)
LastBind(binds, name) ==
    LET at == {i \in 1..Len(binds) : binds[i][1] = name}
    IN  IF at = {} THEN -1
        ELSE binds[CHOOSE i \in at : \A j \in at : j <= i][2]

Innermost(name) ==
    LET fs == {i \in 1..Len(opened) : LastBind(opened[i].binds, name) >= 0}
    IN  IF fs = {} THEN -1
        ELSE LastBind(opened[CHOOSE i \in fs : \A j \in fs : j <= i].binds, name)

C8_Resolve ==
    /\ Len(opened) = Len(scopes)
    /\ \A n \in Names :
         /\ get_var(Cur, n) = Innermost(n)
         /\ Innermost(n) < 0 =>
              /\ compile_expr(Cur, Id(n)).err = "UndefinedVariable"
              /\ compile_expr(Cur, Id(n)).bytecode = bytecode
         /\ Innermost(n) >= 0 =>
              compile_expr(Cur, Id(n)).bytecode =
                  (bytecode \o <<OpCode.Load>>) \o to_ne_bytes(Innermost(n))
    /\ \A f \in 1..Len(opened) :
         \A i, j \in 1..Len(opened[f].binds) :
             i # j => opened[f].binds[i][2] # opened[f].binds[j][2]

\* x is bound in an outer frame and re-bound twice in an inner frame that
\* is still open, so it resolves to the last of the inner binds; y is bound
\* nowhere
C8_Witness ==
    /\ \E i \in 1..(Len(opened) - 1) : LastBind(opened[i].binds, "x") >= 0
    /\ \E i, j \in 1..Len(opened[Len(opened)].binds) :
         /\ i < j
         /\ opened[Len(opened)].binds[i][1] = "x"
         /\ opened[Len(opened)].binds[j][1] = "x"
         /\ get_var(Cur, "x") = opened[Len(opened)].binds[j][2]
    /\ Innermost("y") < 0

(* C9: the bindings of all open frames hold pairwise distinct slots, each  *)
(* below the slot counter.                                                 *)
Held == {<<i, n>> : i \in 1..Len(scopes), n \in Names}
Live == {h \in Held : h[2] \in DOMAIN scopes[h[1]]}

C9_DistinctSlots ==
    \A g, h \in Live :
        /\ scopes[g[1]][g[2]] < vi
        /\ g # h => scopes[g[1]][g[2]] # scopes[h[1]][h[2]]

\* a frame in which a name was re-bound has been closed, and bindings made
\* after that are held together with older ones
C9_Witness ==
    /\ \E f \in closed :
         \E i, j \in 1..Len(f.binds) : i # j /\ f.binds[i][1] = f.binds[j][1]
    /\ \E g, h \in Live : g # h
    /\ \E g \in Live : \E f \in closed :
         f.vi_close > f.vi_open /\ scopes[g[1]][g[2]] >= f.vi_close

(* C10: the code of every translated expression leaves exactly one more    *)
(* value on the operand stack than it found and never pops below the depth *)
(* it found; along every execution path of a compiled program the stack is *)
(* empty wherever a statement starts or ends, whichever way each           *)
(* jump-if-false goes.                                                     *)
C10_StackBalanced ==
    /\ \A s \in spans : Straight(bytecode, s[1], s[2], 0) = 1
    /\ status = "done" =>
         LET reach == Paths(bytecode)
         IN  /\ <<-1, 0>> \notin reach
             /\ \A pd \in reach : pd[1] \in marks => pd[2] = 0
             /\ \A m \in marks : <<m, 0>> \in reach
             /\ <<Len(bytecode) - 1, 0>> \in reach

\* a finished program with a compound assignment in the block of a loop
C10_Witness ==
    /\ status = "done"
    /\ \E p \in patched : \E s \in spans :
         /\ p.kind # "se"
         /\ p.body_start <= s[1] /\ s[2] <= p.body_end
         /\ OpAt(bytecode, s[2] - 1 - SIZE) = OpCode.Store

====
